---- MODULE Spec2Model ----
(***************************************************************************)
(* State-machine model of the two Octo inference adapters:                 *)
(*   OctoInference        (real2sim/octo/octo_model.py, local model)       *)
(*   OctoServerInference  (real2sim/octo/octo_server_model.py, HTTP)       *)
(* One behaviour constructs one adapter and then calls reset / step on it. *)
(*                                                                         *)
(* Numbers.  Remote adapter: the server's raw action components are        *)
(* integers in tenths (open_gripper 0.4 is 4, the 0.5 threshold is 5) and  *)
(* raw_action.den is 1.  Local adapter: a normalized action component is   *)
(* an integer number of halves, action_mean and action_std are integers in *)
(* units of 1e-8, and a de-normalized vector is kept exactly as integer    *)
(* numerators over the common denominator raw_action.den (value =          *)
(* numerator / den, in units of 1e-8).  The world_vector of action is over *)
(* the same denominator.  den is the only field of raw_action that is not  *)
(* a key of the Python dict.                                               *)
(* numpy arrays of shape (n,) are sequences of length n; None is <<>>.     *)
(***************************************************************************)
EXTENDS Integers, Sequences, FiniteSets, TLC

VARIABLES
    pc,                       \* "start" | "local" | "remote" | "failed"
    ctor_policy,              \* policy_setup argument given to __init__
    ctor_error,               \* exception raised by __init__, "none" if none
    attrs,                    \* names of the attributes __init__ assigned on self
    policy_setup,             \* self.policy_setup
    task,                     \* self.task: <<>> unset, <<"None">>, or what reset stored
    time_step,                \* self.time_step
    sticky_gripper_num_repeat,\* self.sticky_gripper_num_repeat
    sticky_action_is_on,      \* self.sticky_action_is_on
    gripper_action_repeat,    \* self.gripper_action_repeat
    sticky_gripper_action,    \* self.sticky_gripper_action
    previous_gripper_action,  \* self.previous_gripper_action
    outcome,                  \* how the last call ended: "none", "returned" or the exception
    raw_action,               \* first component of the pair step returned
    action,                   \* second component of the pair step returned
    action_scale,             \* self.action_scale
    last_call,                \* the last call made: "none" | "init" | "reset" | "step"
    num_queries,              \* POSTs to <server>/query issued by the last step call
    last_input,               \* the arguments (and the server's answer) of the last step call
    prev_before,              \* previous_gripper_action as the last returned step found it
    since06,                  \* returned steps since a 0.6 trigger followed by zeros only, -1 if none
    val06,                    \* the relative action of that trigger
    hold_len,                 \* steps of the current (or just ended) hold, its trigger included
    hold_retrig,              \* a later step of that hold saw |relative action| > 0.5
    hold_released,            \* the last returned step ended that hold
    after_release,            \* the returned step before the last one ended a hold
    ended_steps,              \* time_step as the last call, a reset, found it (0 after any other call)
    ctor_class,               \* the class whose __init__ ran: "OctoInference" | "OctoServerInference"
    environ,                  \* names set in os.environ by this program
    automatic_task_creation,  \* self.automatic_task_creation
    action_ensemble,          \* self.action_ensemble
    action_mean,              \* self.action_mean
    action_std,               \* self.action_std
    image_history,            \* self.image_history, a deque(maxlen = horizon)
    num_image_history,        \* self.num_image_history
    action_history,           \* self.action_ensembler.action_history, a deque(maxlen = pred_action_horizon)
    model_query,              \* images and pad_mask the last step handed to the model
    pushed,                   \* frames added to the history since the last reset (or construction)
    chunks                    \* action chunks that passed the shape check since the last reset (or construction)

ctorVars == <<ctor_class, ctor_policy, ctor_error, attrs, environ, policy_setup,
              action_scale, sticky_gripper_num_repeat, automatic_task_creation,
              action_ensemble, action_mean, action_std>>
historyVars == <<image_history, num_image_history, action_history, model_query, pushed,
                 chunks>>
stickyVars == <<sticky_action_is_on, gripper_action_repeat, sticky_gripper_action,
                previous_gripper_action>>
callVars == <<last_call, outcome, raw_action, action, num_queries, last_input>>
monVars == <<prev_before, since06, val06, hold_len, hold_retrig, hold_released,
             after_release>>
\* ended_steps is written by every reset and every step call

vars == <<pc, ctorVars, task, time_step, stickyVars, historyVars, callVars, monVars,
          ended_steps>>

(***************************************************************************)
(* Bounds of the model.                                                    *)
(***************************************************************************)
\* steps of one episode of the remote adapter (time_step is capped here)
MaxStepsRemote == 18

\* step calls of one episode of the local adapter that reach the history
MaxStepsLocal == 4
\* horizon of OctoInference.__init__: frames in the observation window
horizon == 3
\* pred_action_horizon of OctoInference.__init__: actions in one chunk
pred_action_horizon == 2

\* image_size of both __init__ when the caller gives none
image_size == 256
\* the sticky hold length the google_robot branch of __init__ stores
StickyRepeatGoogle == 15
\* the sticky hold length the widowx_bridge branch of __init__ stores
StickyRepeatWidowx == 1

Policies == {"widowx_bridge", "google_robot", "other_robot"}
Tasks == {"pick coke can"}
ModelTypes == {"octo-base", "custom_checkpoint"}
Pixels == {"imgA", "imgB"}
ActionScales == {2}
\* action_scale of OctoServerInference.__init__ when the caller gives none
DefaultActionScale == 1
Dtypes == {"uint8", "float32"}
\* open_gripper values the server can answer with, in tenths
GripperVals == {0, 4, 10}
\* lengths of the array the server can answer with (7 is the protocol's)
ReplyLens == {5, 6, 7, 8}

Abs(x) == IF x < 0 THEN -x ELSE x

\* the value of raw_action / action while no step has returned one
NoAction == [world_vector |-> <<>>, rot_axangle |-> <<>>, gripper |-> <<>>,
             terminate_episode |-> <<>>]
NoRawAction == [world_vector |-> <<>>, rotation_delta |-> <<>>, open_gripper |-> <<>>,
                den |-> 1]
NoQuery == [images |-> <<>>, pad_mask |-> <<>>]
NoReply == [net |-> "none", status |-> 0, body |-> "none", vec |-> <<>>]
NoInput == [dtype |-> "none", reply |-> NoReply]

(***************************************************************************)
(* Python / numpy helpers.                                                 *)
(***************************************************************************)
Min(a, b) == IF a <= b THEN a ELSE b

\* v[a:b] for 0 <= a <= b
Slice(v, a, b) == SubSeq(v, a + 1, Min(b, Len(v)))
\* v[-1:]
LastSlice(v) == IF Len(v) = 0 THEN <<>> ELSE <<v[Len(v)]>>
\* v * k, elementwise
Scale(v, k) == [i \in 1..Len(v) |-> v[i] * k]

\* transforms3d.euler.euler2axangle is an external library: axis * angle * scale
\* is kept as the uninterpreted application to the Euler angles.
RotAxangle(rotation_delta, den, scale) ==
    [euler2axangle |-> rotation_delta, over |-> den, times |-> scale]

(***************************************************************************)
(* OctoServerInference.__init__                                            *)
(***************************************************************************)
\* RemoteCtor with the final raise missing: an unknown policy falls through
RemoteCtor_FallsThrough(p) ==
    IF p = "widowx_bridge"
    THEN [error |-> "NotImplementedError", assigned |-> {"sticky_gripper_num_repeat"},
          num_repeat |-> StickyRepeatWidowx]
    ELSE [error |-> "none", assigned |-> {"sticky_gripper_num_repeat"},
          num_repeat |-> StickyRepeatGoogle]

\* RemoteCtor with the raise of the widowx_bridge branch missing
RemoteCtor_WidowxAllowed(p) ==
    IF p = "widowx_bridge"
    THEN [error |-> "none", assigned |-> {"sticky_gripper_num_repeat"},
          num_repeat |-> StickyRepeatWidowx]
    ELSE IF p = "google_robot"
    THEN [error |-> "none", assigned |-> {"sticky_gripper_num_repeat"},
          num_repeat |-> StickyRepeatGoogle]
    ELSE [error |-> "NotImplementedError", assigned |-> {}, num_repeat |-> 0]

\* what __init__ does before `self.policy_setup = policy_setup`:
\* the exception raised, the attributes assigned, sticky_gripper_num_repeat
RemoteCtor(p) ==
    IF p = "widowx_bridge"
    THEN [error |-> "NotImplementedError", assigned |-> {"sticky_gripper_num_repeat"},
          num_repeat |-> StickyRepeatWidowx]
    ELSE IF p = "google_robot"
    THEN [error |-> "none", assigned |-> {"sticky_gripper_num_repeat"},
          num_repeat |-> StickyRepeatGoogle]
    ELSE [error |-> "NotImplementedError", assigned |-> {}, num_repeat |-> 0]

RemoteAttrs == {"sticky_gripper_num_repeat", "policy_setup", "sticky_action_is_on",
                "gripper_action_repeat", "sticky_gripper_action",
                "previous_gripper_action", "image_size", "action_scale", "task",
                "time_step"}

\* the sticky-gripper fields as __init__ sets them
InitStickyState ==
    [on |-> FALSE, repeat |-> 0, sticky |-> <<0>>, prev |-> <<>>]

\* the sticky-gripper fields as reset sets them
ResetStickyState ==
    [on |-> FALSE, repeat |-> 0, sticky |-> <<0>>, prev |-> <<>>]

(***************************************************************************)
(* OctoServerInference._query_for_action                                   *)
(***************************************************************************)
\* What the POST to <server>/query can produce.  net = "timeout": requests raises.
\* Otherwise a response with a status and a body; body = "array" carries vec.
ServerVec(len, g) == SubSeq(<<1, -2, 3, 2, -1, 0, g, 4>>, 1, len)

Replies ==
    {[net |-> "timeout", status |-> 0, body |-> "none", vec |-> <<>>]}
    \cup {[net |-> "response", status |-> st, body |-> b, vec |-> <<>>] :
             st \in {200, 500}, b \in {"not_json", "json_object", "json_string_not_json"}}
    \cup {[net |-> "response", status |-> st, body |-> "array", vec |-> ServerVec(7, g)] :
             st \in {200, 500}, g \in GripperVals}
    \cup {[net |-> "response", status |-> st, body |-> "array", vec |-> ServerVec(len, 0)] :
             st \in {200, 500}, len \in ReplyLens}

\* requests.post(..., timeout=100).json() followed by loads(reply)
QueryForAction(reply) ==
    IF reply.net = "timeout" THEN [exc |-> "Timeout", value |-> <<>>]
    ELSE IF reply.body = "not_json" THEN [exc |-> "JSONDecodeError", value |-> <<>>]
    ELSE IF reply.body = "json_object" THEN [exc |-> "TypeError", value |-> <<>>]
    ELSE IF reply.body = "json_string_not_json" THEN [exc |-> "JSONDecodeError", value |-> <<>>]
    ELSE [exc |-> "none", value |-> reply.vec]

(***************************************************************************)
(* OctoServerInference.step, the google_robot gripper branch               *)
(***************************************************************************)
\* StickyGripper releasing one step late (repeat compared with n + 1)
StickyGripper_ExpiresLate(s, cur, n) ==
    LET rel0    == IF s.prev = <<>> THEN <<0>> ELSE <<s.prev[1] - cur[1]>>
        trig    == Abs(rel0[1]) > 5 /\ s.on = FALSE
        on1     == s.on \/ trig
        sticky1 == IF trig THEN rel0 ELSE s.sticky
        repeat1 == IF on1 THEN s.repeat + 1 ELSE s.repeat
        rel1    == IF on1 THEN sticky1 ELSE rel0
        expire  == repeat1 = n + 1
    IN  [on      |-> IF expire THEN FALSE ELSE on1,
         repeat  |-> IF expire THEN 0 ELSE repeat1,
         sticky  |-> IF expire THEN <<0>> ELSE sticky1,
         prev    |-> cur,
         gripper |-> rel1,
         rel0    |-> rel0,
         held    |-> on1]

\* StickyGripper without the `sticky_action_is_on is False` test: a trigger
\* inside a hold latches the new value and restarts the count
StickyGripper_Restarts(s, cur, n) ==
    LET rel0    == IF s.prev = <<>> THEN <<0>> ELSE <<s.prev[1] - cur[1]>>
        trig    == Abs(rel0[1]) > 5
        on1     == s.on \/ trig
        sticky1 == IF trig THEN rel0 ELSE s.sticky
        repeat1 == IF trig THEN 1 ELSE IF on1 THEN s.repeat + 1 ELSE s.repeat
        rel1    == IF on1 THEN sticky1 ELSE rel0
        expire  == repeat1 = n
    IN  [on      |-> IF expire THEN FALSE ELSE on1,
         repeat  |-> IF expire THEN 0 ELSE repeat1,
         sticky  |-> IF expire THEN <<0>> ELSE sticky1,
         prev    |-> cur,
         gripper |-> rel1,
         rel0    |-> rel0,
         held    |-> on1]

\* StickyGripper leaving previous_gripper_action alone while a hold is active
StickyGripper_PrevFrozenInHold(s, cur, n) ==
    LET rel0    == IF s.prev = <<>> THEN <<0>> ELSE <<s.prev[1] - cur[1]>>
        trig    == Abs(rel0[1]) > 5 /\ s.on = FALSE
        on1     == s.on \/ trig
        sticky1 == IF trig THEN rel0 ELSE s.sticky
        repeat1 == IF on1 THEN s.repeat + 1 ELSE s.repeat
        rel1    == IF on1 THEN sticky1 ELSE rel0
        expire  == repeat1 = n
    IN  [on      |-> IF expire THEN FALSE ELSE on1,
         repeat  |-> IF expire THEN 0 ELSE repeat1,
         sticky  |-> IF expire THEN <<0>> ELSE sticky1,
         prev    |-> IF on1 THEN s.prev ELSE cur,
         gripper |-> rel1,
         rel0    |-> rel0,
         held    |-> on1]

\* StickyGripper leaving sticky_gripper_action latched when the hold expires
StickyGripper_KeepsLatch(s, cur, n) ==
    LET rel0    == IF s.prev = <<>> THEN <<0>> ELSE <<s.prev[1] - cur[1]>>
        trig    == Abs(rel0[1]) > 5 /\ s.on = FALSE
        on1     == s.on \/ trig
        sticky1 == IF trig THEN rel0 ELSE s.sticky
        repeat1 == IF on1 THEN s.repeat + 1 ELSE s.repeat
        rel1    == IF on1 THEN sticky1 ELSE rel0
        expire  == repeat1 = n
    IN  [on      |-> IF expire THEN FALSE ELSE on1,
         repeat  |-> IF expire THEN 0 ELSE repeat1,
         sticky  |-> sticky1,
         prev    |-> cur,
         gripper |-> rel1,
         rel0    |-> rel0,
         held    |-> on1]

\* StickyGripper ending the hold one step early
StickyGripper_ExpiresEarly(s, cur, n) ==
    LET rel0    == IF s.prev = <<>> THEN <<0>> ELSE <<s.prev[1] - cur[1]>>
        trig    == Abs(rel0[1]) > 5 /\ s.on = FALSE
        on1     == s.on \/ trig
        sticky1 == IF trig THEN rel0 ELSE s.sticky
        repeat1 == IF on1 THEN s.repeat + 1 ELSE s.repeat
        rel1    == IF on1 THEN sticky1 ELSE rel0
        expire  == repeat1 >= n - 1
    IN  [on      |-> IF expire THEN FALSE ELSE on1,
         repeat  |-> IF expire THEN 0 ELSE repeat1,
         sticky  |-> IF expire THEN <<0>> ELSE sticky1,
         prev    |-> cur,
         gripper |-> rel1,
         rel0    |-> rel0,
         held    |-> on1]

\* s: the four sticky fields before the step; cur: raw_action['open_gripper'];
\* n: sticky_gripper_num_repeat.  rel0 is the relative action before the latch
\* replaces it, held says whether the latch replaced it.
StickyGripper(s, cur, n) ==
    LET rel0    == IF s.prev = <<>> THEN <<0>> ELSE <<s.prev[1] - cur[1]>>
        trig    == Abs(rel0[1]) > 5 /\ s.on = FALSE
        on1     == s.on \/ trig
        sticky1 == IF trig THEN rel0 ELSE s.sticky
        repeat1 == IF on1 THEN s.repeat + 1 ELSE s.repeat
        rel1    == IF on1 THEN sticky1 ELSE rel0
        expire  == repeat1 = n
    IN  [on      |-> IF expire THEN FALSE ELSE on1,
         repeat  |-> IF expire THEN 0 ELSE repeat1,
         sticky  |-> IF expire THEN <<0>> ELSE sticky1,
         prev    |-> cur,
         gripper |-> rel1,
         rel0    |-> rel0,
         held    |-> on1]

\* 2.0 * (open_gripper > 0.5) - 1.0, open_gripper in tenths
BinarizeTenths(og) == [i \in 1..Len(og) |-> IF og[i] > 5 THEN 1 ELSE -1]

\* RemoteGripper feeding the filter the binarized gripper instead of the raw one
RemoteGripper_Binarized(policy, s, og, n) ==
    IF policy = "google_robot" THEN StickyGripper(s, BinarizeTenths(og), n)
    ELSE [on |-> s.on, repeat |-> s.repeat, sticky |-> s.sticky, prev |-> s.prev,
          gripper |-> BinarizeTenths(og), rel0 |-> <<0>>, held |-> FALSE]

\* lines 168-191 of step: the gripper of the action and the sticky fields after it
RemoteGripper(policy, s, og, n) ==
    IF policy = "google_robot" THEN StickyGripper(s, og, n)
    ELSE [on |-> s.on, repeat |-> s.repeat, sticky |-> s.sticky, prev |-> s.prev,
          gripper |-> BinarizeTenths(og), rel0 |-> <<0>>, held |-> FALSE]

StickyFields ==
    [on |-> sticky_action_is_on, repeat |-> gripper_action_repeat,
     sticky |-> sticky_gripper_action, prev |-> previous_gripper_action]

(***************************************************************************)
(* Initial state: no adapter constructed yet.                              *)
(***************************************************************************)
Init ==
    /\ pc = "start"
    /\ ctor_class = "none" /\ environ = {}
    /\ ctor_policy = "none" /\ ctor_error = "none" /\ attrs = {}
    /\ automatic_task_creation = FALSE /\ action_ensemble = FALSE
    /\ action_mean = <<>> /\ action_std = <<>>
    /\ image_history = <<>> /\ num_image_history = 0 /\ action_history = <<>>
    /\ model_query = NoQuery /\ pushed = <<>> /\ chunks = <<>>
    /\ policy_setup = "unset" /\ action_scale = 0
    /\ sticky_gripper_num_repeat = 0
    /\ task = <<>> /\ time_step = 0
    /\ sticky_action_is_on = FALSE /\ gripper_action_repeat = 0
    /\ sticky_gripper_action = <<>> /\ previous_gripper_action = <<>>
    /\ last_call = "none" /\ outcome = "none"
    /\ raw_action = NoRawAction /\ action = NoAction
    /\ num_queries = 0 /\ last_input = NoInput
    /\ prev_before = <<>> /\ since06 = -1 /\ val06 = <<0>>
    /\ hold_len = 0 /\ hold_retrig = FALSE /\ hold_released = FALSE
    /\ after_release = FALSE
    /\ ended_steps = 0

MonitorsCleared ==
    /\ prev_before' = <<>> /\ since06' = -1 /\ val06' = <<0>>
    /\ hold_len' = 0 /\ hold_retrig' = FALSE /\ hold_released' = FALSE
    /\ after_release' = FALSE

(***************************************************************************)
(* OctoServerInference.__init__(policy_setup = p)                          *)
(***************************************************************************)
RemoteInit(p) ==
    /\ pc = "start"
    /\ LET c == RemoteCtor(p) IN
       /\ ctor_class' = "OctoServerInference"
       /\ ctor_policy' = p
       /\ ctor_error' = c.error
       /\ sticky_gripper_num_repeat' = c.num_repeat
       /\ last_call' = "init"
       /\ IF c.error # "none"
          THEN /\ pc' = "failed"
               /\ attrs' = c.assigned
               /\ outcome' = c.error
               /\ UNCHANGED <<policy_setup, action_scale, task, time_step, stickyVars>>
          ELSE /\ pc' = "remote"
               /\ attrs' = RemoteAttrs
               /\ outcome' = "returned"
               /\ policy_setup' = p
               /\ sticky_action_is_on' = InitStickyState.on
               /\ gripper_action_repeat' = InitStickyState.repeat
               /\ sticky_gripper_action' = InitStickyState.sticky
               /\ previous_gripper_action' = InitStickyState.prev
               /\ action_scale' = DefaultActionScale
               /\ task' = <<"None">>
               /\ time_step' = 0
    /\ UNCHANGED <<environ, automatic_task_creation, action_ensemble, action_mean,
                   action_std, historyVars>>
    /\ UNCHANGED <<raw_action, action, num_queries, last_input, monVars, ended_steps>>

(***************************************************************************)
(* OctoServerInference.reset(task_description = t); net: the POST to       *)
(* <server>/reset returns ("ok") or raises ("error").                      *)
(***************************************************************************)
RemoteReset(t, net) ==
    /\ pc = "remote"
    /\ task' = <<t>>
    /\ time_step' = 0
    /\ sticky_action_is_on' = ResetStickyState.on
    /\ gripper_action_repeat' = ResetStickyState.repeat
    /\ sticky_gripper_action' = ResetStickyState.sticky
    /\ previous_gripper_action' = ResetStickyState.prev
    /\ outcome' = IF net = "ok" THEN "returned" ELSE "ConnectionError"
    /\ last_call' = "reset"
    /\ ended_steps' = time_step
    /\ raw_action' = NoRawAction /\ action' = NoAction
    /\ num_queries' = 0 /\ last_input' = NoInput
    /\ MonitorsCleared
    /\ UNCHANGED <<pc, ctorVars, historyVars>>

(***************************************************************************)
(* OctoServerInference.step(image); dtype: image.dtype, reply: what the    *)
(* POST to <server>/query produces.                                        *)
(***************************************************************************)
\* StepRaises counting the failed call as a step
StepRaises_CountsStep(exc, nq) ==
    /\ outcome' = exc
    /\ num_queries' = nq
    /\ raw_action' = NoRawAction /\ action' = NoAction
    /\ time_step' = time_step + 1
    /\ UNCHANGED <<stickyVars, monVars>>

\* step raises exc after nq queries: no field was assigned before the raise
StepRaises(exc, nq) ==
    /\ outcome' = exc
    /\ num_queries' = nq
    /\ raw_action' = NoRawAction /\ action' = NoAction
    /\ UNCHANGED <<time_step, stickyVars, monVars>>

RemoteStepReturns(v) ==
    LET raw == [world_vector |-> Slice(v, 0, 3),
                rotation_delta |-> Slice(v, 3, 6),
                open_gripper |-> LastSlice(v),
                den |-> 1]
        g   == RemoteGripper(policy_setup, StickyFields, raw.open_gripper,
                             sticky_gripper_num_repeat)
        trig == g.held /\ ~sticky_action_is_on
        is06 == trig /\ Abs(g.rel0[1]) = 6
    IN  /\ outcome' = "returned"
        /\ num_queries' = 1
        /\ raw_action' = raw
        /\ action' = [world_vector |-> Scale(raw.world_vector, action_scale),
                      rot_axangle |-> RotAxangle(raw.rotation_delta, raw.den, action_scale),
                      gripper |-> g.gripper,
                      terminate_episode |-> <<0>>]
        /\ sticky_action_is_on' = g.on
        /\ gripper_action_repeat' = g.repeat
        /\ sticky_gripper_action' = g.sticky
        /\ previous_gripper_action' = g.prev
        /\ time_step' = time_step + 1
        /\ prev_before' = previous_gripper_action
        /\ since06' = IF is06 THEN 0
                      ELSE IF since06 >= 0 /\ g.rel0 = <<0>> THEN since06 + 1
                      ELSE -1
        /\ val06' = IF is06 THEN g.rel0
                    ELSE IF since06 >= 0 /\ g.rel0 = <<0>> THEN val06
                    ELSE <<0>>
        /\ hold_len' = IF trig THEN 1 ELSE IF g.held THEN hold_len + 1 ELSE 0
        /\ hold_retrig' = IF trig THEN FALSE
                          ELSE IF g.held THEN hold_retrig \/ Abs(g.rel0[1]) > 5
                          ELSE FALSE
        /\ hold_released' = (g.held /\ ~g.on)
        /\ after_release' = hold_released

RemoteStep(dtype, reply) ==
    /\ pc = "remote"
    /\ time_step < MaxStepsRemote
    /\ last_call' = "step"
    /\ ended_steps' = 0
    /\ last_input' = [dtype |-> dtype,
                      reply |-> IF dtype = "uint8" THEN reply ELSE NoReply]
    /\ IF dtype # "uint8" THEN StepRaises("AssertionError", 0)
       ELSE LET q == QueryForAction(reply) IN
            IF q.exc # "none" THEN StepRaises(q.exc, 1)
            ELSE IF Len(Slice(q.value, 3, 6)) # 3 THEN StepRaises("ValueError", 1)
            ELSE RemoteStepReturns(q.value)
    /\ UNCHANGED <<pc, ctorVars, task, historyVars>>

(***************************************************************************)
(* OctoInference.__init__                                                  *)
(***************************************************************************)
\* LocalCtor with action_ensemble left on for google_robot
LocalCtor_EnsembleGoogle(p) ==
    IF p = "widowx_bridge"
    THEN [error |-> "none", dataset_id |-> "bridge_dataset",
          action_ensemble |-> TRUE, action_ensemble_temp |-> 0]
    ELSE IF p = "google_robot"
    THEN [error |-> "none", dataset_id |-> "fractal20220817_data",
          action_ensemble |-> TRUE, action_ensemble_temp |-> 0]
    ELSE [error |-> "NotImplementedError", dataset_id |-> "none",
          action_ensemble |-> FALSE, action_ensemble_temp |-> 0]

\* lines 28-38: what the policy_setup selects, or the exception raised
LocalCtor(p) ==
    IF p = "widowx_bridge"
    THEN [error |-> "none", dataset_id |-> "bridge_dataset",
          action_ensemble |-> TRUE, action_ensemble_temp |-> 0]
    ELSE IF p = "google_robot"
    THEN [error |-> "none", dataset_id |-> "fractal20220817_data",
          action_ensemble |-> FALSE, action_ensemble_temp |-> 0]
    ELSE [error |-> "NotImplementedError", dataset_id |-> "none",
          action_ensemble |-> FALSE, action_ensemble_temp |-> 0]

\* lines 61-69: the statistics of a custom checkpoint, in units of 1e-8
CustomActionMean(dataset_id) ==
    IF dataset_id = "bridge_dataset"
    THEN <<21161, 12614, -17022, -15062, -23831, 25646, 0>>
    ELSE <<696389, 627008, -1263256, 4330839, -570499, 89247, 0>>

CustomActionStd(dataset_id) ==
    IF dataset_id = "bridge_dataset"
    THEN <<963721, 1350660, 1251861, 2806791, 3016905, 7632624, 100000000>>
    ELSE <<6925472, 6019009, 7354742, 15605888, 13163990, 14593437, 100000000>>

\* lines 46-47: model.dataset_statistics[dataset_id]['action'] of a released
\* model is data of the pretrained checkpoint; one representative value each,
\* with a gripper mean and std of 0.5, in units of 1e-8
PretrainedActionMean(dataset_id) ==
    IF dataset_id = "bridge_dataset"
    THEN <<21161, 12614, -17022, -15062, -23831, 25646, 50000000>>
    ELSE <<696389, 627008, -1263256, 4330839, -570499, 89247, 50000000>>

PretrainedActionStd(dataset_id) ==
    IF dataset_id = "bridge_dataset"
    THEN <<963721, 1350660, 1251861, 2806791, 3016905, 7632624, 50000000>>
    ELSE <<6925472, 6019009, 7354742, 15605888, 13163990, 14593437, 50000000>>

LocalAttrs == {"policy_setup", "model_type", "tokenizer", "tokenizer_kwargs", "model",
               "action_mean", "action_std", "automatic_task_creation", "image_size",
               "action_scale", "horizon", "pred_action_horizon", "exec_horizon",
               "action_ensemble", "action_ensemble_temp", "task", "image_history",
               "action_ensembler", "num_image_history", "time_step"}

\* lines 83-89: the episode state as __init__ leaves it
LocalInitEpisode ==
    [image_history |-> <<>>, action_history |-> <<>>, num_image_history |-> 0,
     time_step |-> 0]

\* LocalResetEpisode without `self.action_ensembler.reset()`
LocalResetEpisode_KeepsBuffer(ah, ens) ==
    [image_history |-> <<>>, action_history |-> ah,
     num_image_history |-> 0, time_step |-> 0]

\* lines 116-120: the episode state as reset leaves it; ah is the ensembler's
\* buffer before the call, ens is self.action_ensemble
LocalResetEpisode(ah, ens) ==
    [image_history |-> <<>>, action_history |-> IF ens THEN <<>> ELSE ah,
     num_image_history |-> 0, time_step |-> 0]

(***************************************************************************)
(* collections.deque(maxlen = n)                                           *)
(***************************************************************************)
DequeAppend(d, x, maxlen) ==
    LET e == Append(d, x) IN
    IF Len(e) > maxlen THEN SubSeq(e, Len(e) - maxlen + 1, Len(e)) ELSE e

DequeExtend(d, xs, maxlen) ==
    LET e == d \o xs IN
    IF Len(e) > maxlen THEN SubSeq(e, Len(e) - maxlen + 1, Len(e)) ELSE e

(***************************************************************************)
(* OctoInference: image history                                            *)
(***************************************************************************)
\* _resize_image: lanczos3 resize to image_size, round, clip, cast to uint8
ResizeImage(image) ==
    [pixels |-> image.pixels, size |-> image_size, dtype |-> "uint8"]

\* _add_image_to_history without the first-frame replication
AddImageToHistory_NoFill(hist, num, image) ==
    [image_history |-> DequeAppend(hist, image, horizon),
     num_image_history |-> Min(num + 1, horizon)]

\* _add_image_to_history replicating every frame, not only the first
AddImageToHistory_AlwaysFill(hist, num, image) ==
    [image_history |-> DequeExtend(hist, [i \in 1..horizon |-> image], horizon),
     num_image_history |-> Min(num + 1, horizon)]

\* _add_image_to_history
AddImageToHistory(hist, num, image) ==
    [image_history |-> IF num = 0
                       THEN DequeExtend(hist, [i \in 1..horizon |-> image], horizon)
                       ELSE DequeAppend(hist, image, horizon),
     num_image_history |-> Min(num + 1, horizon)]

\* _obtain_image_history_and_mask clearing the mask's first num slots
\* instead of its first horizon - num
ObtainImageHistoryAndMask_MaskHead(hist, num) ==
    [images |-> hist,
     pad_mask |-> [i \in 1..horizon |-> ~(i <= num)]]

\* _obtain_image_history_and_mask
ObtainImageHistoryAndMask(hist, num) ==
    [images |-> hist,
     pad_mask |-> [i \in 1..horizon |-> ~(i <= horizon - num)]]

(***************************************************************************)
(* The model's output for one query, batch dimension removed: an array of  *)
(* shape (len, dim), a sequence of len sequences of dim halves.            *)
(***************************************************************************)
ActA == <<2, -2, 4, 2, 0, -2, 2>>
ActZ == <<0, 0, 0, 0, 0, 0, 0>>

\* well-shaped chunks: the first k actions are ActA, the others ActZ, for k
\* none, one or all of them
GoodOutputs ==
    {[i \in 1..pred_action_horizon |-> IF i <= k THEN ActA ELSE ActZ] :
        k \in {0, 1, pred_action_horizon}}
\* ill-shaped ones: 8 components per action, one action too many
BadOutputs ==
    {[i \in 1..pred_action_horizon |-> Append(ActA, 1)],
     [i \in 1..(pred_action_horizon + 1) |-> ActA]}
ModelOutputs == GoodOutputs \cup BadOutputs

\* lines 140-159: sample_actions(...)[0], or lc_ws2(...)[:, :, :7][0]
ModelCall(auto, out) ==
    IF auto THEN out ELSE [i \in 1..Len(out) |-> Slice(out[i], 0, 7)]

\* line 160: norm_raw_actions.shape == (self.pred_action_horizon, 7)
ShapeOk(a) ==
    /\ Len(a) = pred_action_horizon
    /\ \A i \in 1..Len(a) : Len(a[i]) = 7

(***************************************************************************)
(* real2sim.utils.action.action_ensemble.ActionEnsembler with temp = 0     *)
(***************************************************************************)
VecAdd(u, v) == [i \in 1..Len(u) |-> u[i] + v[i]]

RECURSIVE EnsembleSum(_, _)
\* the sum over the i oldest chunks of a buffer of n: chunk j (1 the oldest)
\* was pushed n - j steps ago and contributes its action of index n - j
EnsembleSum(buf, i) ==
    IF i = 0 THEN ActZ
    ELSE VecAdd(EnsembleSum(buf, i - 1), buf[i][Len(buf) - i + 1])

\* ensemble_action(cur_action): the buffer after the push, and the average
\* as a sum over the number of contributors
EnsembleAction(buf, chunk) ==
    LET b == DequeAppend(buf, chunk, pred_action_horizon) IN
    [action_history |-> b, sum |-> EnsembleSum(b, Len(b)), n |-> Len(b)]

(***************************************************************************)
(* OctoInference.step, after the model call                                *)
(***************************************************************************)
\* de-normalization with the two statistics swapped
Denormalize_SwapsStats(num, den, mean, std) ==
    [i \in 1..Len(num) |-> num[i] * mean[i] + std[i] * den]

\* line 166: norm * std + mean, for norm = num / den: numerators over den
Denormalize(num, den, mean, std) ==
    [i \in 1..Len(num) |-> num[i] * std[i] + mean[i] * den]

\* LocalGripper without the google_robot negation
LocalGripper_NoFlip(policy, og, den) ==
    [i \in 1..Len(og) |-> IF og[i] > 50000000 * den THEN 1 ELSE -1]

\* lines 182-185: og is raw_action['open_gripper'], a numerator over den
LocalGripper(policy, og, den) ==
    LET b == [i \in 1..Len(og) |-> IF og[i] > 50000000 * den THEN 1 ELSE -1] IN
    IF policy = "google_robot" THEN [i \in 1..Len(b) |-> -b[i]] ELSE b

(***************************************************************************)
(* OctoInference.__init__(model_type = mt, policy_setup = p,               *)
(*                        action_scale = scale)                            *)
(***************************************************************************)
LocalInit(mt, p, scale) ==
    /\ pc = "start"
    /\ environ' = environ \cup {"TOKENIZERS_PARALLELISM"}
    /\ LET c == LocalCtor(p)
           auto == mt \in {"octo-base", "octo-small"}
       IN
       /\ ctor_class' = "OctoInference"
       /\ ctor_policy' = p
       /\ ctor_error' = c.error
       /\ last_call' = "init"
       /\ IF c.error # "none"
          THEN /\ pc' = "failed"
               /\ attrs' = {}
               /\ outcome' = c.error
               /\ UNCHANGED <<policy_setup, action_scale, automatic_task_creation,
                              action_ensemble, action_mean, action_std, task,
                              time_step, image_history, num_image_history,
                              action_history>>
          ELSE /\ pc' = "local"
               /\ attrs' = LocalAttrs
               /\ outcome' = "returned"
               /\ policy_setup' = p
               /\ automatic_task_creation' = auto
               /\ action_mean' = IF auto THEN PretrainedActionMean(c.dataset_id)
                                 ELSE CustomActionMean(c.dataset_id)
               /\ action_std' = IF auto THEN PretrainedActionStd(c.dataset_id)
                                ELSE CustomActionStd(c.dataset_id)
               /\ action_scale' = scale
               /\ action_ensemble' = c.action_ensemble
               /\ task' = <<"None">>
               /\ image_history' = LocalInitEpisode.image_history
               /\ action_history' = LocalInitEpisode.action_history
               /\ num_image_history' = LocalInitEpisode.num_image_history
               /\ time_step' = LocalInitEpisode.time_step
    /\ UNCHANGED <<sticky_gripper_num_repeat, stickyVars, model_query, pushed, chunks>>
    /\ UNCHANGED <<raw_action, action, num_queries, last_input, monVars, ended_steps>>

(***************************************************************************)
(* OctoInference.reset(task_description = t)                               *)
(***************************************************************************)
LocalReset(t) ==
    /\ pc = "local"
    /\ task' = IF automatic_task_creation THEN <<"create_tasks", t>>
               ELSE <<"tokenizer", t>>
    /\ LET e == LocalResetEpisode(action_history, action_ensemble) IN
       /\ image_history' = e.image_history
       /\ action_history' = e.action_history
       /\ num_image_history' = e.num_image_history
       /\ time_step' = e.time_step
    /\ model_query' = NoQuery /\ pushed' = <<>> /\ chunks' = <<>>
    /\ outcome' = "returned"
    /\ last_call' = "reset"
    /\ ended_steps' = time_step
    /\ raw_action' = NoRawAction /\ action' = NoAction
    /\ num_queries' = 0 /\ last_input' = NoInput
    /\ UNCHANGED <<pc, ctorVars, stickyVars, monVars>>

(***************************************************************************)
(* OctoInference.step(image); out: what the model answers this query with  *)
(***************************************************************************)
\* LocalStepReturns taking the first action of the chunk under either policy
LocalStepReturns_NoEnsemble(norm) ==
    LET raw_actions == Denormalize(norm[1], 2, action_mean, action_std)
        raw == [world_vector |-> Slice(raw_actions, 0, 3),
                rotation_delta |-> Slice(raw_actions, 3, 6),
                open_gripper |-> Slice(raw_actions, 6, 7),
                den |-> 2]
    IN  /\ outcome' = "returned"
        /\ action_history' = action_history
        /\ raw_action' = raw
        /\ action' = [world_vector |-> Scale(raw.world_vector, action_scale),
                      rot_axangle |-> RotAxangle(raw.rotation_delta, raw.den, action_scale),
                      gripper |-> LocalGripper(policy_setup, raw.open_gripper, raw.den),
                      terminate_episode |-> <<0>>]
        /\ time_step' = time_step + 1
        /\ chunks' = Append(chunks, norm)

\* lines 162-198: the step from the ensembler to the returned actions
LocalStepReturns(norm) ==
    LET ens == EnsembleAction(action_history, norm)
        num == IF action_ensemble THEN ens.sum ELSE norm[1]
        den == IF action_ensemble THEN 2 * ens.n ELSE 2
        raw_actions == Denormalize(num, den, action_mean, action_std)
        raw == [world_vector |-> Slice(raw_actions, 0, 3),
                rotation_delta |-> Slice(raw_actions, 3, 6),
                open_gripper |-> Slice(raw_actions, 6, 7),
                den |-> den]
    IN  /\ outcome' = "returned"
        /\ action_history' = IF action_ensemble THEN ens.action_history
                             ELSE action_history
        /\ raw_action' = raw
        /\ action' = [world_vector |-> Scale(raw.world_vector, action_scale),
                      rot_axangle |-> RotAxangle(raw.rotation_delta, raw.den, action_scale),
                      gripper |-> LocalGripper(policy_setup, raw.open_gripper, raw.den),
                      terminate_episode |-> <<0>>]
        /\ time_step' = time_step + 1
        /\ chunks' = Append(chunks, norm)

LocalStep(image, out) ==
    /\ pc = "local"
    /\ Len(pushed) < MaxStepsLocal
    /\ last_call' = "step"
    /\ ended_steps' = 0
    /\ IF image.dtype # "uint8"
       THEN /\ last_input' = [dtype |-> image.dtype, pixels |-> image.pixels,
                              output |-> <<>>]
            /\ StepRaises("AssertionError", 0)
            /\ UNCHANGED historyVars
       ELSE LET frame == ResizeImage(image)
                h == AddImageToHistory(image_history, num_image_history, frame)
                norm == ModelCall(automatic_task_creation, out)
            IN  /\ last_input' = [dtype |-> image.dtype, pixels |-> image.pixels,
                                  output |-> out]
                /\ image_history' = h.image_history
                /\ num_image_history' = h.num_image_history
                /\ pushed' = Append(pushed, frame)
                /\ model_query' = ObtainImageHistoryAndMask(h.image_history,
                                                            h.num_image_history)
                /\ num_queries' = 1
                /\ IF ShapeOk(norm)
                   THEN LocalStepReturns(norm)
                   ELSE /\ outcome' = "AssertionError"
                        /\ raw_action' = NoRawAction /\ action' = NoAction
                        /\ UNCHANGED <<time_step, action_history, chunks>>
    /\ UNCHANGED <<pc, ctorVars, task, stickyVars, monVars>>

\* a frame of each content as uint8, and one frame of every other sample type
Images ==
    {[dtype |-> "uint8", pixels |-> p] : p \in Pixels}
    \cup {[dtype |-> d, pixels |-> CHOOSE p \in Pixels : TRUE] : d \in Dtypes \ {"uint8"}}

NextLocal ==
    \/ \E mt \in ModelTypes, p \in Policies, scale \in ActionScales : LocalInit(mt, p, scale)
    \/ \E t \in Tasks : LocalReset(t)
    \/ \E image \in Images :
          \E out \in IF image.dtype = "uint8" THEN ModelOutputs ELSE {<<>>} :
              LocalStep(image, out)

NextRemote ==
    \/ \E p \in Policies : RemoteInit(p)
    \/ \E t \in Tasks, net \in {"ok", "error"} : RemoteReset(t, net)
    \/ \E dtype \in Dtypes :
          \E reply \in IF dtype = "uint8" THEN Replies ELSE {NoReply} :
              RemoteStep(dtype, reply)

Next == NextLocal \/ NextRemote

\* either adapter
Spec == Init /\ [][Next]_vars
\* the local adapter alone
SpecLocal == Init /\ [][NextLocal]_vars
\* the remote adapter alone
SpecRemote == Init /\ [][NextRemote]_vars

(***************************************************************************)
(* Properties.                                                             *)
(***************************************************************************)
RemoteStepReturned == pc = "remote" /\ last_call = "step" /\ outcome = "returned"
LocalStepReturned == pc = "local" /\ last_call = "step" /\ outcome = "returned"
AllOf(seq, x) == \A i \in 1..Len(seq) : seq[i] = x

\* C1 (as amended): after a step that finds the filter idle and sees a relative
\* gripper action of magnitude 0.6, followed only by steps whose relative action
\* is 0, the 0.6 value is emitted on sticky_gripper_num_repeat steps counting the
\* triggering step (so on sticky_gripper_num_repeat - 1 later steps), and every
\* step after those emits the raw relative action 0.
C1_HoldCountsTriggerStep ==
    (RemoteStepReturned /\ since06 >= 0) =>
        /\ Abs(val06[1]) = 6
        /\ since06 < sticky_gripper_num_repeat => action.gripper = val06
        /\ since06 >= sticky_gripper_num_repeat => action.gripper = <<0>>

\* C1 witness: the first step after the hold, emitting the raw zero
C1_Witness ==
    /\ RemoteStepReturned
    /\ since06 = sticky_gripper_num_repeat
    /\ action.gripper = <<0>>

\* C1 as stated: the 0.6 value is emitted on each of the
\* sticky_gripper_num_repeat steps that follow the triggering step, and the raw
\* zero only after them.
C1_HeldOnNSubsequentSteps ==
    (RemoteStepReturned /\ since06 >= 1) =>
        /\ since06 <= sticky_gripper_num_repeat => action.gripper = val06
        /\ since06 > sticky_gripper_num_repeat => action.gripper = <<0>>

\* C2 (as amended): a second trigger (|relative action| > 0.5) arriving inside a
\* hold is ignored: the hold is neither extended nor restarted, and the filter is
\* IDLE again exactly when it would have been without the second trigger, at the
\* end of the sticky_gripper_num_repeat-th step of the hold counting the step of
\* the first trigger.
C2_SecondTriggerIgnored ==
    (RemoteStepReturned /\ hold_retrig) =>
        /\ hold_len <= sticky_gripper_num_repeat
        /\ hold_released <=> hold_len = sticky_gripper_num_repeat
        /\ hold_released <=> ~sticky_action_is_on
        /\ sticky_action_is_on => gripper_action_repeat = hold_len

\* C2 witness: a hold that saw a second trigger ends
C2_Witness ==
    /\ RemoteStepReturned
    /\ hold_retrig
    /\ hold_released
    /\ hold_len = sticky_gripper_num_repeat

\* C2 as stated: a hold that saw a second trigger returns to IDLE later than a
\* hold without one, that is after more than sticky_gripper_num_repeat steps.
C2_SecondTriggerExtendsHold ==
    (RemoteStepReturned /\ hold_retrig /\ hold_released) =>
        hold_len > sticky_gripper_num_repeat

\* C3: after exactly one frame has been pushed since reset (or construction) the
\* window is horizon copies of that frame and the mask is false in every slot
\* but the last, which is true.
C3_FirstPushFillsWindow ==
    (pc = "local" /\ Len(pushed) = 1) =>
        LET w == ObtainImageHistoryAndMask(image_history, num_image_history) IN
        /\ w.images = [i \in 1..horizon |-> pushed[1]]
        /\ w.pad_mask = [i \in 1..horizon |-> i = horizon]
        /\ model_query = w

\* C3 witness: one frame pushed in an episode that a reset started
C3_Witness ==
    /\ pc = "local"
    /\ Len(pushed) = 1
    /\ task # <<"None">>
    /\ last_call = "step"
    /\ Len(model_query.images) = horizon

\* C4: once horizon or more frames have been pushed since the last reset, the
\* mask is all true and the window is the last horizon pushed frames, oldest
\* first; this holds in every later state of the episode.
C4_FullWindowIsLastFrames ==
    (pc = "local" /\ Len(pushed) >= horizon) =>
        LET w == ObtainImageHistoryAndMask(image_history, num_image_history) IN
        /\ AllOf(w.pad_mask, TRUE)
        /\ Len(w.pad_mask) = horizon
        /\ w.images = SubSeq(pushed, Len(pushed) - horizon + 1, Len(pushed))
        /\ model_query = w

\* C4 witness: more than horizon frames pushed, the first one since dropped
C4_Witness ==
    /\ pc = "local"
    /\ Len(pushed) > horizon
    /\ pushed[1] # pushed[2]
    /\ pushed[1] # pushed[Len(pushed)]

\* C5: after a reset the episode state of either adapter is that of a freshly
\* constructed one, and the first step after it sees nothing older: the local
\* ensembler holds that step's chunk alone, the remote filter has no previous
\* gripper value and emits the relative action 0.
C5_ResetRestoresFreshState ==
    /\ (pc = "local" /\ last_call = "reset") =>
           /\ image_history = LocalInitEpisode.image_history
           /\ num_image_history = LocalInitEpisode.num_image_history
           /\ action_history = LocalInitEpisode.action_history
           /\ time_step = LocalInitEpisode.time_step
    /\ (pc = "remote" /\ last_call = "reset") =>
           /\ StickyFields = InitStickyState
           /\ time_step = 0
    /\ (LocalStepReturned /\ time_step = 1) =>
           /\ Len(action_history) = IF action_ensemble THEN 1 ELSE 0
           /\ raw_action.den = 2
           /\ raw_action.open_gripper =
                  <<ModelCall(automatic_task_creation, last_input.output)[1][7]
                        * action_std[7] + 2 * action_mean[7]>>
    /\ (RemoteStepReturned /\ time_step = 1) =>
           /\ prev_before = <<>>
           /\ action.gripper = <<0>>

\* C5 witness: a reset that ends an episode of at least two ensembled steps
C5_Witness ==
    /\ pc = "local"
    /\ last_call = "reset"
    /\ action_ensemble
    /\ ended_steps >= 2

\* C6 as stated: a remote step whose query times out, is answered with a
\* non-2xx status, or is answered with a body that does not decode to an array
\* raises, after exactly one query, and returns no action.
C6_NetworkErrorsAbortStep ==
    (/\ pc = "remote" /\ last_call = "step" /\ last_input.dtype = "uint8"
     /\ \/ last_input.reply.net = "timeout"
        \/ last_input.reply.status \notin 200..299
        \/ last_input.reply.body # "array") =>
        /\ outcome \notin {"none", "returned"}
        /\ num_queries = 1
        /\ action = NoAction
        /\ raw_action = NoRawAction

\* C7 as stated: a step whose model output is not of shape
\* (pred_action_horizon, 7), or whose server answer is not a 7-vector, raises.
C7_WrongShapeFailsLoudly ==
    /\ (/\ pc = "local" /\ last_call = "step" /\ last_input.dtype = "uint8"
        /\ ~ShapeOk(last_input.output)) => outcome # "returned"
    /\ (/\ pc = "remote" /\ last_call = "step" /\ last_input.dtype = "uint8"
        /\ last_input.reply.body = "array"
        /\ Len(last_input.reply.vec) # 7) => outcome # "returned"

C9_LocalGripperSign ==
    LocalStepReturned =>
        LET open == raw_action.open_gripper[1] > 50000000 * raw_action.den IN
        /\ action.gripper \in {<<1>>, <<-1>>}
        /\ policy_setup = "widowx_bridge" => (action.gripper = <<1>> <=> open)
        /\ policy_setup = "google_robot" => (action.gripper = <<-1>> <=> open)

\* C9 witness: google_robot, an open gripper, emitted as -1
C9_Witness ==
    /\ LocalStepReturned
    /\ policy_setup = "google_robot"
    /\ raw_action.open_gripper[1] > 50000000 * raw_action.den
    /\ action.gripper = <<-1>>

\* the gripper of a returned remote step is the sticky filter's answer to the raw
\* open_gripper: the filter stored the raw value, and emits previous - raw
\* outside a hold and on the step that starts one, the latched value (of
\* magnitude above 0.5) inside a hold
RoutedThroughStickyFilter ==
    LET og  == raw_action.open_gripper
        rel == IF prev_before = <<>> THEN <<0>> ELSE <<prev_before[1] - og[1]>>
    IN  /\ og = LastSlice(last_input.reply.vec)
        /\ previous_gripper_action = og
        /\ hold_len = 0 => action.gripper = rel
        /\ hold_len = 1 => action.gripper = rel
        /\ hold_len >= 1 => Abs(action.gripper[1]) > 5

C11_WindowInvariant ==
    pc = "local" =>
        LET w    == ObtainImageHistoryAndMask(image_history, num_image_history)
            seen == Min(Len(pushed), horizon)
        IN  IF Len(pushed) = 0
            THEN image_history = <<>> /\ num_image_history = 0
            ELSE /\ Len(w.images) = horizon
                 /\ num_image_history = seen
                 /\ \A i \in 1..horizon :
                        /\ w.pad_mask[i] = (i > horizon - seen)
                        /\ (i <= horizon - seen) => w.images[i] = pushed[1]

\* C11 witness: a window still warming up, its first slot a copy of the first frame
C11_Witness ==
    /\ pc = "local"
    /\ Len(pushed) = 1
    /\ horizon > 1
    /\ Len(image_history) = horizon
    /\ image_history[1] = pushed[1]
    /\ ObtainImageHistoryAndMask(image_history, num_image_history).pad_mask[1] = FALSE

\* C11 as stated: in every state of the local adapter the window holds exactly
\* horizon frames.
C11_WindowAlwaysFull ==
    pc = "local" => Len(image_history) = horizon

\* the de-normalized 7-vector of the last step, numerators over raw_action.den
RawVector == raw_action.world_vector \o raw_action.rotation_delta \o raw_action.open_gripper

\* every action of every chunk is all zeros
AllZero(cs) == \A i \in 1..Len(cs) : \A j \in 1..Len(cs[i]) : cs[i][j] = ActZ

\* C12: when every chunk the model has returned in the episode is all zeros, a
\* step of the local adapter, with or without ensembling, yields raw_action equal
\* to action_mean exactly and a world_vector equal to action_mean[:3] * action_scale.
C12_ZeroChunksGiveMean ==
    (LocalStepReturned /\ AllZero(chunks)) =>
        /\ RawVector = [i \in 1..7 |-> action_mean[i] * raw_action.den]
        /\ action.world_vector =
               [i \in 1..3 |-> action_mean[i] * action_scale * raw_action.den]

\* C12 witness: an ensembled step over more than one all-zero chunk
C12_Witness ==
    /\ LocalStepReturned
    /\ action_ensemble
    /\ Len(action_history) >= 2
    /\ AllZero(chunks)
    /\ Len(chunks) >= 2

\* the sum of the action of index k + 1 of the chunk pushed k steps ago, k < m
RECURSIVE AlignedSum(_, _)
AlignedSum(cs, m) ==
    IF m = 0 THEN ActZ
    ELSE VecAdd(AlignedSum(cs, m - 1), cs[Len(cs) - (m - 1)][m])

\* C13: under widowx_bridge (temp = 0), after N chunks have been pushed since
\* reset the ensembled action is the unweighted average of the contributions of
\* the min(N, pred_action_horizon) most recent chunks, the chunk pushed k steps
\* ago contributing its k-th action; the buffer never holds more than
\* pred_action_horizon chunks.
C13_EnsembleIsAlignedAverage ==
    (pc = "local" /\ action_ensemble) =>
        /\ Len(action_history) = Min(Len(chunks), pred_action_horizon)
        /\ LocalStepReturned =>
               LET m == Min(Len(chunks), pred_action_horizon)
               IN  /\ raw_action.den = 2 * m
                   /\ RawVector = Denormalize(AlignedSum(chunks, m), 2 * m,
                                              action_mean, action_std)

\* C13 witness: more chunks pushed than the buffer holds, the newest two
\* contributing different actions
C13_Witness ==
    /\ LocalStepReturned
    /\ action_ensemble
    /\ Len(chunks) > pred_action_horizon
    /\ chunks[Len(chunks)][1] # chunks[Len(chunks) - 1][2]

\* C14: a returned step of the remote adapter computes relative_action as the
\* raw gripper value of the preceding step minus the current raw value, 0 on
\* the first step after reset; it overwrites the previous value with the
\* current raw value, inside a hold too; it emits the latched action on every
\* step on which a hold is active, the triggering step included, and the raw
\* relative_action otherwise.
C14_GripperOutputRule ==
    [][(pc = "remote" /\ last_call' = "step" /\ outcome' = "returned") =>
          LET cur  == raw_action'.open_gripper
              rel  == IF previous_gripper_action = <<>> THEN <<0>>
                      ELSE <<previous_gripper_action[1] - cur[1]>>
              trig == ~sticky_action_is_on /\ Abs(rel[1]) > 5
          IN  /\ cur = LastSlice(last_input'.reply.vec)
              /\ time_step = 0 => rel = <<0>>
              /\ previous_gripper_action' = cur
              /\ action'.gripper = IF sticky_action_is_on THEN sticky_gripper_action
                                   ELSE rel
              /\ trig => (hold_len' = 1 /\ action'.gripper = rel)
              /\ (~sticky_action_is_on /\ ~trig) => hold_len' = 0
              /\ sticky_action_is_on => hold_len' = hold_len + 1]_vars

\* C14 witness: a later step of a hold emits the latched action although the raw
\* relative_action differs from it, and still records the current raw value
C14_Witness ==
    /\ RemoteStepReturned
    /\ hold_len >= 2
    /\ ~hold_released
    /\ action.gripper = sticky_gripper_action
    /\ action.gripper # <<prev_before[1] - raw_action.open_gripper[1]>>
    /\ previous_gripper_action = raw_action.open_gripper
    /\ previous_gripper_action # prev_before

\* C15: constructing the remote adapter with policy_setup = widowx_bridge always
\* raises NotImplementedError, so every remote adapter on which reset or step
\* can run has policy_setup = google_robot and sticky_gripper_num_repeat = 15.
C15_RemoteIsAlwaysGoogle ==
    /\ (ctor_class = "OctoServerInference" /\ ctor_policy = "widowx_bridge") =>
           (pc = "failed" /\ ctor_error = "NotImplementedError")
    /\ pc = "remote" =>
           (policy_setup = "google_robot" /\ sticky_gripper_num_repeat = 15)

\* C15 witness: a construction of the remote adapter for widowx_bridge was
\* rejected after it had set sticky_gripper_num_repeat
C15_Witness ==
    /\ ctor_class = "OctoServerInference"
    /\ ctor_policy = "widowx_bridge"
    /\ pc = "failed"
    /\ ctor_error = "NotImplementedError"
    /\ sticky_gripper_num_repeat = StickyRepeatWidowx

\* C17: between calls of the remote adapter, 0 <= gripper_action_repeat <
\* sticky_gripper_num_repeat; while sticky_action_is_on is False the counter and
\* the latched action are 0; while it is True the counter is at least 1 and the
\* latched action is beyond 0.5 in absolute value.
C17_StickyStateInvariant ==
    pc = "remote" =>
        /\ 0 <= gripper_action_repeat
        /\ gripper_action_repeat < sticky_gripper_num_repeat
        /\ ~sticky_action_is_on =>
               (gripper_action_repeat = 0 /\ sticky_gripper_action = <<0>>)
        /\ sticky_action_is_on =>
               (gripper_action_repeat >= 1 /\ Abs(sticky_gripper_action[1]) > 5)

\* C17 witness: the last step before a hold expires
C17_Witness ==
    /\ pc = "remote"
    /\ sticky_action_is_on
    /\ gripper_action_repeat = sticky_gripper_num_repeat - 1
    /\ last_call = "step"

\* C18: every hold of the remote adapter lasts exactly
\* sticky_gripper_num_repeat consecutive steps counting the triggering step,
\* whatever gripper values arrive during it, the filter is IDLE at the end of
\* the last of those steps, and a trigger on the very next step starts a new hold.
C18_HoldLastsExactlyN ==
    RemoteStepReturned =>
        /\ hold_len \in 0..sticky_gripper_num_repeat
        /\ hold_len = 0 => (~sticky_action_is_on /\ ~hold_released)
        /\ (hold_len >= 1 /\ hold_len < sticky_gripper_num_repeat) =>
               (sticky_action_is_on /\ gripper_action_repeat = hold_len /\ ~hold_released)
        /\ hold_len = sticky_gripper_num_repeat =>
               (hold_released /\ ~sticky_action_is_on /\ gripper_action_repeat = 0)
        /\ (after_release
              /\ Abs(prev_before[1] - raw_action.open_gripper[1]) > 5) =>
               (hold_len = 1 /\ sticky_action_is_on)

\* C18 witness: a hold starts on the step right after the step that ended the
\* previous one
C18_Witness ==
    /\ RemoteStepReturned
    /\ after_release
    /\ hold_len = 1
    /\ sticky_action_is_on

\* C16: the local adapter applies the ActionEnsembler on a step if and only if
\* the policy is widowx_bridge; under google_robot there is no ensemble buffer
\* and a step de-normalizes the first action of that step's chunk, whatever the
\* chunks of earlier steps were.
C16_EnsembleOnlyForWidowx ==
    pc = "local" =>
        /\ action_ensemble <=> policy_setup = "widowx_bridge"
        /\ policy_setup = "google_robot" => action_history = <<>>
        /\ (LocalStepReturned /\ policy_setup = "google_robot") =>
               /\ chunks[Len(chunks)] =
                      ModelCall(automatic_task_creation, last_input.output)
               /\ raw_action.den = 2
               /\ RawVector = Denormalize(chunks[Len(chunks)][1], 2,
                                          action_mean, action_std)
        /\ (LocalStepReturned /\ policy_setup = "widowx_bridge") =>
               /\ Len(action_history) >= 1
               /\ action_history[Len(action_history)] = chunks[Len(chunks)]
               /\ raw_action.den = 2 * Len(action_history)

\* C16 witness: a google_robot step whose chunk starts with another action than
\* the one the chunk of the step before predicted for this step
C16_Witness ==
    /\ LocalStepReturned
    /\ policy_setup = "google_robot"
    /\ Len(chunks) >= 2
    /\ chunks[Len(chunks)][1] # chunks[Len(chunks) - 1][2]

\* C19: after k pushes since reset with 1 <= k < horizon, the k slots the mask
\* marks valid hold exactly the k pushed frames in push order, and each of the
\* horizon - k slots marked invalid holds a copy of the first pushed frame.
C19_WarmUpWindow ==
    (pc = "local" /\ Len(pushed) >= 1 /\ Len(pushed) < horizon) =>
        LET k == Len(pushed)
            w == ObtainImageHistoryAndMask(image_history, num_image_history)
        IN  /\ Len(w.images) = horizon
            /\ Cardinality({i \in 1..horizon : w.pad_mask[i]}) = k
            /\ \A j \in 1..k :
                   (w.pad_mask[horizon - k + j] /\ w.images[horizon - k + j] = pushed[j])
            /\ \A i \in 1..(horizon - k) :
                   (~w.pad_mask[i] /\ w.images[i] = pushed[1])

\* C19 witness: two different frames pushed into a window that is not full yet
C19_Witness ==
    /\ pc = "local"
    /\ Len(pushed) = 2
    /\ Len(pushed) < horizon
    /\ pushed[1] # pushed[2]
    /\ image_history[horizon] = pushed[2]
    /\ image_history[1] = pushed[1]

\* C20: a step of either adapter that is rejected because the image is not of
\* the 8-bit sample type fails with an AssertionError before any state is
\* touched: frame history, frames-seen counter, ensemble buffer, sticky-gripper
\* fields and step counter are unchanged and no model or server query is issued,
\* so the next step finds the adapter as the step before the rejected one left it.
C20_RejectedStepTouchesNothing ==
    [][(last_call' = "step" /\ last_input'.dtype # "uint8") =>
          /\ outcome' = "AssertionError"
          /\ num_queries' = 0
          /\ UNCHANGED <<image_history, num_image_history, action_history, model_query>>
          /\ UNCHANGED <<sticky_action_is_on, gripper_action_repeat,
                         sticky_gripper_action, previous_gripper_action>>
          /\ UNCHANGED <<time_step, task, pc, ctorVars, pushed, chunks, monVars>>]_vars

\* C20 witness: a rejected step in the middle of an episode of the local adapter
\* whose window and ensemble buffer hold data
C20_Witness ==
    /\ pc = "local"
    /\ last_call = "step"
    /\ last_input.dtype # "uint8"
    /\ outcome = "AssertionError"
    /\ num_queries = 0
    /\ time_step >= 1
    /\ num_image_history >= 1
    /\ Len(action_history) >= 1

====
